---- MODULE Spec2Model ----
(***************************************************************************)
(* SupportFlow ticket simulator (src/app.py): one script run of main() and *)
(* the send_tickets_process loop it may start.                             *)
(*                                                                         *)
(* Time is counted in tenths of a second (the step of both sliders), so    *)
(* the slider range 0.1 .. 5.0 is 1 .. 50.  The success rate is counted in *)
(* tenths of a percent (the ".1f" of the summary metric).                  *)
(***************************************************************************)
EXTENDS Integers, Sequences, FiniteSets, TLC

\* ---------------------------------------------------------------- bounds
MaxRows == 2        \* rows of an uploaded CSV
MaxDelay == 2       \* largest slider position tried, in tenths of a second
MaxMissing == 2     \* required columns an uploaded CSV may lack

\* ------------------------------------------------------ program constants
SliderMin == 1      \* st.slider(..., 0.1, 5.0, ...)
SliderMax == 50

\* ------------------------------------------------------------ cell values
\* A cell of the DataFrame: an integer, a text or a missing value (NaN).
IntCell(n) == [t |-> "int", n |-> n, s |-> ""]
StrCell(s) == [t |-> "str", n |-> 0, s |-> s]
NaNCell == [t |-> "nan", n |-> 0, s |-> ""]

Digits == <<"0", "1", "2", "3", "4", "5", "6", "7", "8", "9">>

RECURSIVE NatToText(_)
NatToText(n) ==
    IF n < 10 THEN Digits[n + 1]
    ELSE NatToText(n \div 10) \o Digits[(n % 10) + 1]

\* Python's str() on a cell value.
str(v) ==
    CASE v.t = "int" -> (IF v.n < 0 THEN "-" \o NatToText(0 - v.n) ELSE NatToText(v.n))
      [] v.t = "str" -> v.s
      [] v.t = "nan" -> "nan"

\* ------------------------------------------------------------- validation
required_columns ==
    <<"id", "channel", "customer_name", "subject", "fullMessage", "sentiment_name">>

RequiredSet == {required_columns[k] : k \in 1..Len(required_columns)}

\* [col for col in required_columns if col not in df.columns]
missing_columns(columns) ==
    SelectSeq(required_columns, LAMBDA col : col \notin columns)

Message(level, what, cols) == [level |-> level, what |-> what, cols |-> cols]

validate_csv_structure_unchecked(columns) ==
    [ok |-> TRUE, shown |-> <<>>]

\* Returns the verdict together with what it displays (st.error, st.info).
validate_csv_structure(columns) ==
    LET missing == missing_columns(columns) IN
    IF missing # <<>>
    THEN [ok |-> FALSE,
          shown |-> <<Message("error", "Missing columns in CSV", missing),
                      Message("info", "Required columns", required_columns)>>]
    ELSE [ok |-> TRUE, shown |-> <<>>]

\* ---------------------------------------------------------------- payload
create_ticket_payload(row) ==
    [external_id    |-> str(row["id"]),
     source_channel |-> str(row["channel"]),
     customer       |-> [name |-> str(row["customer_name"])],
     content        |-> [subject |-> str(row["subject"]),
                         body    |-> str(row["fullMessage"])],
     ai_analysis    |-> [sentiment |-> str(row["sentiment_name"])]]

NoPayload ==
    [external_id |-> "", source_channel |-> "", customer |-> [name |-> ""],
     content |-> [subject |-> "", body |-> ""], ai_analysis |-> [sentiment |-> ""]]

\* --------------------------------------------------------------- delivery
\* What requests.post can do: hand back a response, or raise a
\* RequestException (no response, hence no status code: -1 here).
Responses ==
    {[raised |-> FALSE, status_code |-> 200, text |-> "ok"],
     [raised |-> FALSE, status_code |-> 500, text |-> "Internal Server Error"]}

RequestExceptions ==
    {[raised |-> TRUE, status_code |-> -1, text |-> "ConnectionError"]}

PostOutcomes == Responses \cup RequestExceptions

send_ticket_uncaught(r) ==
    IF r.raised
    THEN [propagates |-> TRUE, success |-> FALSE, status_code |-> 0, text |-> r.text]
    ELSE [propagates |-> FALSE, success |-> TRUE,
          status_code |-> r.status_code, text |-> r.text]

send_ticket_by_status(r) ==
    IF r.raised
    THEN [propagates |-> FALSE, success |-> FALSE, status_code |-> 0, text |-> r.text]
    ELSE [propagates |-> FALSE, success |-> r.status_code < 400,
          status_code |-> r.status_code, text |-> r.text]

\* try: return True, response.status_code, response.text
\* except RequestException as e: return False, 0, str(e)
send_ticket(r) ==
    IF r.raised
    THEN [propagates |-> FALSE, success |-> FALSE, status_code |-> 0, text |-> r.text]
    ELSE [propagates |-> FALSE, success |-> TRUE,
          status_code |-> r.status_code, text |-> r.text]

NoResult == [propagates |-> FALSE, success |-> FALSE, status_code |-> -1, text |-> ""]

\* ------------------------------------------------------------ loop helpers
iterrows_reversed(rows) ==
    [k \in 1..Len(rows) |-> [idx |-> Len(rows) - k, row |-> rows[Len(rows) + 1 - k]]]

\* enumerate(df.iterrows()): position k-1 carries (idx, row) of the k-th row.
iterrows(rows) ==
    [k \in 1..Len(rows) |-> [idx |-> k - 1, row |-> rows[k]]]

has_next_skip_last(pos, total) == pos < total - 1

\* the for loop goes on while rows remain
has_next(pos, total) == pos < total

\* the "i + 1" of progress and of the status text
completed(pos) == pos + 1

needs_delay_every_record(pos, total) == pos < total

\* if i < total_tickets - 1
needs_delay(pos, total) == pos < total - 1

\* random.uniform(a, b) = a + (b - a) * random(): between a and b, either way round
uniform(a, b) == IF a <= b THEN a..b ELSE b..a

count_failed_always(success, failed) == failed + 1

count_success(success, successful) == IF success THEN successful + 1 ELSE successful

count_failed(success, failed) == IF success THEN failed ELSE failed + 1

success_rate_unguarded(successful, total) ==
    IF total > 0
    THEN [raised |-> FALSE, value |-> (2 * 1000 * successful + total) \div (2 * total)]
    ELSE [raised |-> TRUE, value |-> 0]

\* (successful_sends / total_tickets) * 100 if total_tickets > 0 else 0,
\* rounded to one decimal as the metric shows it
success_rate(successful, total) ==
    IF total > 0
    THEN [raised |-> FALSE, value |-> (2 * 1000 * successful + total) \div (2 * total)]
    ELSE [raised |-> FALSE, value |-> 0]

\* ----------------------------------------------------------------- inputs
\* Two rows as they may stand in a CSV, with one column the program ignores.
BaseRows ==
    {[id |-> IntCell(107), channel |-> StrCell("email"),
      customer_name |-> StrCell("Ana"), subject |-> StrCell("Login"),
      fullMessage |-> StrCell("Cannot log in"), sentiment_name |-> StrCell("negative"),
      priority |-> IntCell(1)],
     [id |-> StrCell("T-2"), channel |-> StrCell("chat"),
      customer_name |-> NaNCell, subject |-> StrCell("Thanks"),
      fullMessage |-> StrCell("All good"), sentiment_name |-> StrCell("positive"),
      priority |-> NaNCell]}

AllColumns == RequiredSet \cup {"priority"}

ColumnSets ==
    {cols \in SUBSET AllColumns : Cardinality(RequiredSet \ cols) <= MaxMissing}

RowTables == UNION {[1..n -> BaseRows] : n \in 0..MaxRows}

CsvFiles ==
    {[kind |-> "none", columns |-> {}, rows |-> <<>>],
     [kind |-> "unreadable", columns |-> {}, rows |-> <<>>]}
    \cup
    {[kind |-> "csv", columns |-> cols,
      rows |-> [k \in 1..Len(t) |-> [c \in cols |-> t[k][c]]]] :
        cols \in ColumnSets, t \in RowTables}

Endpoints == {"", "https://webhook.site/x"}

SliderValues == {v \in SliderMin..SliderMax : v <= MaxDelay}

NoFrame == [columns |-> {}, rows |-> <<>>]

Event(kind, rec, ext, num, total, text) ==
    [kind |-> kind, rec |-> rec, ext |-> ext, num |-> num, total |-> total, text |-> text]

NoSummary ==
    [shown |-> "no", successful |-> 0, failed |-> 0, rate |-> 0, closing |-> ""]

\* ------------------------------------------------------------------ state
VARIABLES
    csv_file, endpoint, delay_min, delay_max, button,   \* what the widgets return
    pc,                 \* position of the script run
    df,                 \* the parsed DataFrame
    validated,          \* validate_csv_structure returned True in this run
    messages,           \* what main displays, in order
    exc,                \* the exception travelling to main's handler
    total_tickets, pos, successful_sends, failed_sends,
    payload, result,
    progress_bar, status_text,
    events,             \* what send_tickets_process displays and does, in order
    posted,             \* the requests.post calls, in order
    summary

inputs == <<csv_file, endpoint, delay_min, delay_max, button>>
mainvars == <<df, validated, messages>>
loopvars == <<total_tickets, pos, successful_sends, failed_sends, payload, result,
              progress_bar, status_text, events, posted, summary>>
vars == <<inputs, pc, mainvars, exc, loopvars>>

Init ==
    /\ csv_file \in CsvFiles
    /\ endpoint \in Endpoints
    /\ delay_min \in SliderValues
    /\ delay_max \in SliderValues
    /\ button \in BOOLEAN
    /\ pc = "main"
    /\ df = NoFrame
    /\ validated = FALSE
    /\ messages = <<>>
    /\ exc = ""
    /\ total_tickets = 0
    /\ pos = 0
    /\ successful_sends = 0
    /\ failed_sends = 0
    /\ payload = NoPayload
    /\ result = NoResult
    /\ progress_bar = [num |-> 0, den |-> 1]
    /\ status_text = ""
    /\ events = <<>>
    /\ posted = <<>>
    /\ summary = NoSummary

\* ------------------------------------------------------------------- main
\* if csv_file: df = pd.read_csv(csv_file)
MainReadCsv ==
    /\ pc = "main"
    /\ IF csv_file.kind = "none"
       THEN pc' = "done" /\ UNCHANGED <<df, exc>>
       ELSE IF csv_file.kind = "unreadable"
            THEN pc' = "except" /\ exc' = "EmptyDataError" /\ UNCHANGED df
            ELSE /\ df' = [columns |-> csv_file.columns, rows |-> csv_file.rows]
                 /\ pc' = "validate"
                 /\ UNCHANGED exc
    /\ UNCHANGED <<inputs, validated, messages, loopvars>>

\* if validate_csv_structure(df): success, preview, statistics
MainValidate ==
    /\ pc = "validate"
    /\ LET v == validate_csv_structure(df.columns) IN
       IF v.ok
       THEN /\ validated' = TRUE
            /\ messages' = messages \o v.shown \o
                              <<Message("success", "Valid CSV loaded", <<>>)>>
            /\ pc' = "button"
       ELSE /\ messages' = messages \o v.shown
            /\ pc' = "done"
            /\ UNCHANGED validated
    /\ UNCHANGED <<inputs, df, exc, loopvars>>

\* if endpoint: if st.button(...): send_tickets_process(...)  else: st.warning
MainSendButton ==
    /\ pc = "button"
    /\ IF endpoint # ""
       THEN /\ pc' = IF button THEN "process" ELSE "done"
            /\ UNCHANGED messages
       ELSE /\ messages' = Append(messages,
                                  Message("warning", "Please enter the endpoint URL", <<>>))
            /\ pc' = "done"
    /\ UNCHANGED <<inputs, df, validated, exc, loopvars>>

\* except Exception as e: st.error(...)
MainExcept ==
    /\ pc = "except"
    /\ messages' = Append(messages, Message("error", "Error processing CSV file", <<exc>>))
    /\ pc' = "done"
    /\ UNCHANGED <<inputs, df, validated, exc, loopvars>>

\* --------------------------------------------------- send_tickets_process
ProcessStart ==
    /\ pc = "process"
    /\ total_tickets' = Len(df.rows)
    /\ progress_bar' = [num |-> 0, den |-> 1]
    /\ status_text' = ""
    /\ successful_sends' = 0
    /\ failed_sends' = 0
    /\ pos' = 0
    /\ pc' = "loop"
    /\ UNCHANGED <<inputs, mainvars, exc, payload, result, events, posted, summary>>

LoopNextPayloadFirst ==
    /\ pc = "loop"
    /\ IF has_next(pos, total_tickets)
       THEN LET p == create_ticket_payload(iterrows(df.rows)[pos + 1].row) IN
            /\ progress_bar' = [num |-> completed(pos), den |-> total_tickets]
            /\ status_text' = "Sending ticket"
            /\ payload' = p
            /\ events' = events \o
                  <<Event("payload", pos, p.external_id, 0, 0, ""),
                    Event("progress", pos, "", completed(pos), total_tickets, "Sending ticket")>>
            /\ pc' = "send"
       ELSE /\ pc' = "summary"
            /\ UNCHANGED <<progress_bar, status_text, payload, events>>
    /\ UNCHANGED <<inputs, mainvars, exc, total_tickets, pos, successful_sends,
                   failed_sends, result, posted, summary>>

\* Head of the loop and the first half of its body: progress, status text,
\* payload, payload expander.
LoopNext ==
    /\ pc = "loop"
    /\ IF has_next(pos, total_tickets)
       THEN LET p == create_ticket_payload(iterrows(df.rows)[pos + 1].row) IN
            /\ progress_bar' = [num |-> completed(pos), den |-> total_tickets]
            /\ status_text' = "Sending ticket"
            /\ payload' = p
            /\ events' = events \o
                  <<Event("progress", pos, "", completed(pos), total_tickets, "Sending ticket"),
                    Event("payload", pos, p.external_id, 0, 0, "")>>
            /\ pc' = "send"
       ELSE /\ pc' = "summary"
            /\ UNCHANGED <<progress_bar, status_text, payload, events>>
    /\ UNCHANGED <<inputs, mainvars, exc, total_tickets, pos, successful_sends,
                   failed_sends, result, posted, summary>>

\* success, status_code, response_text = send_ticket(payload, endpoint)
SendTicket ==
    /\ pc = "send"
    /\ \E r \in PostOutcomes :
         LET ret == send_ticket(r) IN
         /\ posted' = Append(posted, [payload |-> payload, endpoint |-> endpoint])
         /\ events' = Append(events,
                Event("post", pos, payload.external_id, r.status_code, 0, r.text))
         /\ IF ret.propagates
            THEN pc' = "except" /\ exc' = r.text /\ UNCHANGED result
            ELSE pc' = "classify" /\ result' = ret /\ UNCHANGED exc
    /\ UNCHANGED <<inputs, mainvars, total_tickets, pos, successful_sends, failed_sends,
                   payload, progress_bar, status_text, summary>>

\* if success: ... else: ...
Classify ==
    /\ pc = "classify"
    /\ successful_sends' = count_success(result.success, successful_sends)
    /\ failed_sends' = count_failed(result.success, failed_sends)
    /\ events' = Append(events,
          IF result.success
          THEN Event("success", pos, payload.external_id, result.status_code, 0, "")
          ELSE Event("failure", pos, payload.external_id, 0, 0, result.text))
    /\ pc' = "delay"
    /\ UNCHANGED <<inputs, mainvars, exc, total_tickets, pos, payload, result,
                   progress_bar, status_text, posted, summary>>

\* if i < total_tickets - 1: time.sleep(random.uniform(delay_min, delay_max))
Delay ==
    /\ pc = "delay"
    /\ IF needs_delay(pos, total_tickets)
       THEN \E d \in uniform(delay_min, delay_max) :
              events' = Append(events, Event("sleep", pos, "", d, 0, ""))
       ELSE UNCHANGED events
    /\ pos' = pos + 1
    /\ pc' = "loop"
    /\ UNCHANGED <<inputs, mainvars, exc, total_tickets, successful_sends, failed_sends,
                   payload, result, progress_bar, status_text, posted, summary>>

\* Final summary: bar at 1.0, status text, three metrics, closing message.
Summary ==
    /\ pc = "summary"
    /\ progress_bar' = [num |-> 1, den |-> 1]
    /\ status_text' = "Process completed"
    /\ LET r == success_rate(successful_sends, total_tickets) IN
       IF r.raised
       THEN /\ summary' = [shown |-> "partial", successful |-> successful_sends,
                           failed |-> failed_sends, rate |-> 0, closing |-> ""]
            /\ exc' = "ZeroDivisionError"
            /\ pc' = "except"
       ELSE /\ summary' = [shown |-> "full", successful |-> successful_sends,
                           failed |-> failed_sends, rate |-> r.value,
                           closing |-> IF successful_sends = total_tickets
                                       THEN "All tickets were sent successfully"
                                       ELSE IF failed_sends > 0
                                            THEN "Sending completed with errors"
                                            ELSE ""]
            /\ exc' = exc
            /\ pc' = "done"
    /\ UNCHANGED <<inputs, mainvars, total_tickets, pos, successful_sends, failed_sends,
                   payload, result, events, posted>>

Next ==
    \/ MainReadCsv
    \/ MainValidate
    \/ MainSendButton
    \/ MainExcept
    \/ ProcessStart
    \/ LoopNext
    \/ SendTicket
    \/ Classify
    \/ Delay
    \/ Summary

Spec == Init /\ [][Next]_vars

\* The script runs to its end: Streamlit executes it without preemption.
FairSpec == Spec /\ WF_vars(Next)

\* ------------------------------------------------------------- vocabulary
N == Len(df.rows)

RunPcs == {"loop", "send", "classify", "delay", "summary"}

InRun == pc \in RunPcs

RunOver == pc = "done" /\ summary.shown = "full"

EventsOf(kinds) == SelectSeq(events, LAMBDA e : e.kind \in kinds)

ResultKinds == {"success", "failure"}

RequiredIndex(col) == CHOOSE k \in 1..Len(required_columns) : required_columns[k] = col

\* ------------------------------------------------------------------ claims

\* C1: a run over N validated rows makes exactly N calls to send_ticket and
\* emits exactly N progress updates, the i-th (from 0) with completed = i+1,
\* whatever the delivery outcomes are.
C1_ExactlyNAttemptsAndProgress ==
    LET prog == EventsOf({"progress"}) IN
    /\ \A k \in 1..Len(prog) : prog[k].num = k /\ prog[k].rec = k - 1
    /\ Len(prog) <= N
    /\ Len(posted) <= N
    /\ InRun => Len(posted) \in {pos, pos + 1}
    /\ RunOver => Len(posted) = N /\ Len(prog) = N

C1_Witness ==
    /\ RunOver
    /\ N >= 2
    /\ successful_sends >= 1
    /\ failed_sends >= 1
    /\ Len(posted) = N

\* C2: at the end of a run successful_sends + failed_sends = total_tickets;
\* after the iteration of record i the sum is i+1; each record increments
\* exactly one of the two counters, by one.
C2_CountersPartitionRecords ==
    /\ [](/\ pc \in {"loop", "send", "classify"} => successful_sends + failed_sends = pos
          /\ pc = "delay" => successful_sends + failed_sends = pos + 1
          /\ pc = "summary" => successful_sends + failed_sends = total_tickets
          /\ RunOver => /\ successful_sends + failed_sends = total_tickets
                        /\ summary.successful + summary.failed = N)
    /\ [][IF pc = "classify"
          THEN \/ successful_sends' = successful_sends + 1 /\ failed_sends' = failed_sends
               \/ successful_sends' = successful_sends /\ failed_sends' = failed_sends + 1
          ELSE successful_sends' = successful_sends /\ failed_sends' = failed_sends]_vars

C2_Witness ==
    /\ RunOver
    /\ total_tickets >= 2
    /\ successful_sends >= 1
    /\ failed_sends >= 1
    /\ successful_sends + failed_sends = total_tickets

\* C3: a failed delivery never aborts the run: a failure raised while posting
\* comes back from send_ticket as a value, main's handler is never entered
\* from the loop, every row is posted and the summary is shown.
C3_FailureNeverAborts ==
    /\ [](pc = "except" => posted = <<>>)
    /\ [](pc = "classify" => ~result.propagates)
    /\ (pc = "process") ~> (RunOver /\ Len(posted) = N)

C3_Witness ==
    /\ RunOver
    /\ N >= 2
    /\ Len(posted) = N
    /\ \E k \in 1..Len(events) : events[k].kind = "failure" /\ events[k].rec = 0

\* C4: rows are dispatched in input order, one at a time: the k-th post
\* carries the payload of the k-th row, and payload, post and result of a
\* record are complete before the payload of the next record is built.
C4_DispatchInRowOrder ==
    LET steps == EventsOf({"payload", "post"} \cup ResultKinds) IN
    /\ \A k \in 1..Len(posted) :
          posted[k].payload = create_ticket_payload(df.rows[k])
    /\ \A j \in 1..Len(steps) :
          /\ steps[j].rec = (j - 1) \div 3
          /\ steps[j].kind \in (CASE (j - 1) % 3 = 0 -> {"payload"}
                                  [] (j - 1) % 3 = 1 -> {"post"}
                                  [] OTHER -> ResultKinds)
          /\ steps[j].ext = str(df.rows[steps[j].rec + 1]["id"])

C4_Witness ==
    /\ RunOver
    /\ N >= 2
    /\ posted[1].payload.external_id = "T-2"
    /\ posted[2].payload.external_id = "107"

\* C5: with 0 <= delay_min <= delay_max a run over N > 0 rows sleeps exactly
\* N-1 times, once after each record but the last, each time for a duration
\* in [delay_min, delay_max]; a run over no rows never sleeps.
C5_SleepsBetweenRecords ==
    (0 <= delay_min /\ delay_min <= delay_max) =>
        LET sl == EventsOf({"sleep"}) IN
        /\ \A k \in 1..Len(sl) :
              /\ sl[k].rec = k - 1
              /\ sl[k].rec < N - 1
              /\ delay_min <= sl[k].num
              /\ sl[k].num <= delay_max
        /\ \A p \in 1..Len(events) :
              events[p].kind = "sleep" =>
                  /\ p > 1
                  /\ events[p - 1].kind \in ResultKinds
                  /\ events[p - 1].rec = events[p].rec
        /\ \A p \in 2..Len(events) :
              events[p].kind = "progress" => events[p - 1].kind = "sleep"
        /\ RunOver => Len(sl) = (IF N > 0 THEN N - 1 ELSE 0)

C5_Witness ==
    /\ RunOver
    /\ N >= 2
    /\ delay_min < delay_max
    /\ \E p \in 1..Len(events) : events[p].kind = "sleep" /\ events[p].num = delay_max

\* C6: when a required column is missing, validation fails, the missing
\* names are reported once in the order of required_columns, no payload is
\* built and nothing is posted; send_tickets_process runs only after
\* validate_csv_structure returned True.
C6_MissingColumnsBlockRun ==
    LET missing == RequiredSet \ csv_file.columns
        reports == SelectSeq(messages, LAMBDA m : m.what = "Missing columns in CSV")
    IN
    /\ (csv_file.kind = "csv" /\ missing # {}) =>
          /\ pc \notin RunPcs \cup {"process", "button"}
          /\ ~validated
          /\ payload = NoPayload
          /\ posted = <<>>
          /\ events = <<>>
          /\ pc = "done" =>
                /\ Len(reports) = 1
                /\ reports[1].level = "error"
                /\ {reports[1].cols[k] : k \in 1..Len(reports[1].cols)} = missing
                /\ \A a, b \in 1..Len(reports[1].cols) :
                      a < b => RequiredIndex(reports[1].cols[a])
                                  < RequiredIndex(reports[1].cols[b])
    /\ (pc \in RunPcs \cup {"process"} \/ posted # <<>> \/ summary.shown # "no") =>
          validated /\ RequiredSet \subseteq df.columns

C6_Witness ==
    /\ pc = "done"
    /\ csv_file.kind = "csv"
    /\ "subject" \notin csv_file.columns
    /\ "id" \notin csv_file.columns
    /\ Len(csv_file.rows) >= 1
    /\ button
    /\ endpoint # ""
    /\ Len(messages) = 2

\* C7: a record counts as a success exactly when its HTTP exchange completed,
\* whatever the status code, and the success event reports that code; a
\* transport failure gives status code 0, counts as a failure and reports
\* the description of the failure.
C7_SuccessIffExchangeCompleted ==
    /\ \A p \in 1..Len(events) :
          events[p].kind \in ResultKinds =>
              /\ p > 1
              /\ events[p - 1].kind = "post"
              /\ events[p - 1].rec = events[p].rec
              /\ events[p].kind = "success" <=> events[p - 1].num # -1
              /\ events[p].kind = "success" => events[p].num = events[p - 1].num
              /\ events[p].kind = "failure" => events[p].text = events[p - 1].text
    /\ pc = "classify" =>
          /\ events[Len(events)].kind = "post"
          /\ result.success <=> events[Len(events)].num # -1
          /\ ~result.success => result.status_code = 0
    /\ successful_sends = Len(EventsOf({"success"}))
    /\ failed_sends = Len(EventsOf({"failure"}))

C7_Witness ==
    /\ RunOver
    /\ successful_sends = 1
    /\ failed_sends = 1
    /\ \E p \in 1..Len(events) : events[p].kind = "success" /\ events[p].num = 500
    /\ \E p \in 1..Len(events) :
          events[p].kind = "failure" /\ events[p].text = "ConnectionError"

\* C8: for a validated dataset without rows the loop body never runs (no
\* payload, no post, no progress, no sleep), the summary shows 0 successes,
\* 0 failures and rate 0, and no error is raised.
C8_EmptyDataset ==
    (validated /\ N = 0) =>
        /\ events = <<>>
        /\ posted = <<>>
        /\ payload = NoPayload
        /\ pc \notin {"send", "classify", "delay", "except"}
        /\ exc = ""
        /\ \A k \in 1..Len(messages) : messages[k].level # "error"
        /\ (pc = "done" /\ endpoint # "" /\ button) =>
              /\ summary.shown = "full"
              /\ total_tickets = 0
              /\ summary.successful = 0
              /\ summary.failed = 0
              /\ summary.rate = 0

C8_Witness ==
    /\ validated
    /\ N = 0
    /\ RunOver
    /\ summary.rate = 0

\* C9 as stated: the progress event of record i (completed = i+1) comes only
\* after record i has been delivered and classified.
C9_ProgressAfterResult ==
    \A p \in 1..Len(events) :
        events[p].kind = "progress" =>
            \E q \in 1..(p - 1) :
                events[q].kind \in ResultKinds /\ events[q].rec = events[p].rec

\* C9 amended: within record i the order is progress (completed = i+1,
\* total = N), payload ready, delivery attempt, success or failure event; the
\* progress value i+1 is emitted before record i is delivered, and only after
\* record i-1 has been delivered and classified.
C9_ProgressFirstThenPayloadPostResult ==
    LET steps == EventsOf({"progress", "payload", "post"} \cup ResultKinds) IN
    \A j \in 1..Len(steps) :
        /\ steps[j].rec = (j - 1) \div 4
        /\ steps[j].kind \in (CASE (j - 1) % 4 = 0 -> {"progress"}
                                [] (j - 1) % 4 = 1 -> {"payload"}
                                [] (j - 1) % 4 = 2 -> {"post"}
                                [] OTHER -> ResultKinds)
        /\ steps[j].kind = "progress" =>
              steps[j].num = steps[j].rec + 1 /\ steps[j].total = N

C9_Witness ==
    /\ pc = "send"
    /\ pos = 1
    /\ Len(events) >= 2
    /\ events[Len(events) - 1].kind = "progress"
    /\ events[Len(events) - 1].num = 2
    /\ events[Len(events)].kind = "payload"

\* C10: whenever main calls send_tickets_process, endpoint is non-empty,
\* both delays are >= 0 and delay_min <= delay_max.
C10_EnginePreconditions ==
    pc = "process" =>
        /\ endpoint # ""
        /\ delay_min >= 0
        /\ delay_max >= 0
        /\ delay_min <= delay_max

====
